---- MODULE Spec2Model ----
(***************************************************************************)
(* Model of the Web Crawler API (app.py, utils.py).                        *)
(*                                                                         *)
(*   Spec      one request through crawl / crawl_json / direct_function /  *)
(*             fetch_link, one step per await of the handler               *)
(*   SpecLinks remove_duplicate_links and extract_links on bounded lists   *)
(*   SpecUrl   classify_url on URLs assembled from their components        *)
(*                                                                         *)
(* Python strings are TLA+ strings; s[i:j] is SubSeq, len is Len.          *)
(***************************************************************************)
EXTENDS Integers, Sequences, FiniteSets, TLC

VARIABLES
    endpoint,    \* the route that received the request
    url,         \* request.url
    pc,          \* position of the handler
    pw,          \* the async_playwright() scope: none / started / stopped
    browser,     \* none / launched / closed (browser.close() was awaited)
    context,     \* none / open / closed (context.close() was awaited)
    page,        \* none / blank / loaded
    title, content, text, links, meta_tags,   \* locals of the handler
    raised,      \* str(e) of the exception raised in the try block, "" if none
    response,    \* what the client receives
    L,           \* SpecLinks: the input link list
    deduped,     \* SpecLinks: remove_duplicate_links(L)
    again,       \* SpecLinks: remove_duplicate_links(deduped)
    hrefs,       \* SpecLinks: extract_links(deduped)
    lpc,         \* SpecLinks: position
    parts,       \* SpecUrl: the components the URL is assembled from
    target,      \* SpecUrl: the assembled URL string
    class,       \* SpecUrl: classify_url(target)
    upc          \* SpecUrl: position

hvars == <<endpoint, url, pc, pw, browser, context, page,
           title, content, text, links, meta_tags, raised, response>>
lvars == <<L, deduped, again, hrefs, lpc>>
uvars == <<parts, target, class, upc>>
vars == <<hvars, lvars, uvars>>

-----------------------------------------------------------------------------
(* Bounds of the model and constants of the program *)

TextCap == 10000
LinkCap == 100
MaxLen == 3
ExtraLinks == 2
ExtraText == 2

-----------------------------------------------------------------------------
(* Strings *)

Range(s) == {s[i] : i \in 1..Len(s)}

Min(S) == CHOOSE m \in S : \A n \in S : m <= n

\* str.startswith(prefix)
StartsWith(s, prefix) ==
    Len(s) >= Len(prefix) /\ SubSeq(s, 1, Len(prefix)) = prefix

\* str.find(c, i) for a one-character c, 1-based; 0 when c does not occur
RECURSIVE Find(_, _, _)
Find(s, c, i) ==
    IF i > Len(s) THEN 0
    ELSE IF SubSeq(s, i, i) = c THEN i
    ELSE Find(s, c, i + 1)

\* s.split(c)[0]: the part of s before the first c, all of s without one
SplitFirst(s, c) ==
    LET i == Find(s, c, 1)
    IN  IF i = 0 THEN s ELSE SubSeq(s, 1, i - 1)

-----------------------------------------------------------------------------
(* utils.py: classify_url *)

Letters == {"a", "b", "c", "d", "e", "f", "g", "h", "i", "j", "k", "l", "m",
            "n", "o", "p", "q", "r", "s", "t", "u", "v", "w", "x", "y", "z"}
SchemeChars == Letters \cup {"0", "1", "2", "3", "4", "5", "6", "7", "8", "9",
                             "+", "-", "."}

\* urllib.parse.urlparse as classify_url uses it: scheme up to the first ':'
\* when those characters are scheme characters, netloc after '//' up to the
\* first of '/', '?', '#', then the fragment cut at '#', the query at '?'.
urlparse(u) ==
    LET i == Find(u, ":", 1)
        hasScheme == /\ i > 1
                     /\ SubSeq(u, 1, 1) \in Letters
                     /\ \A k \in 1..(i - 1) : SubSeq(u, k, k) \in SchemeChars
        scheme == IF hasScheme THEN SubSeq(u, 1, i - 1) ELSE ""
        r1 == IF hasScheme THEN SubSeq(u, i + 1, Len(u)) ELSE u
        hasNetloc == Len(r1) >= 2 /\ SubSeq(r1, 1, 2) = "//"
        delims == {Find(r1, d, 3) : d \in {"/", "?", "#"}} \ {0}
        delim == IF delims = {} THEN Len(r1) + 1 ELSE Min(delims)
        netloc == IF hasNetloc THEN SubSeq(r1, 3, delim - 1) ELSE ""
        r2 == IF hasNetloc THEN SubSeq(r1, delim, Len(r1)) ELSE r1
        h == Find(r2, "#", 1)
        fragment == IF h > 0 THEN SubSeq(r2, h + 1, Len(r2)) ELSE ""
        r3 == IF h > 0 THEN SubSeq(r2, 1, h - 1) ELSE r2
        q == Find(r3, "?", 1)
        query == IF q > 0 THEN SubSeq(r3, q + 1, Len(r3)) ELSE ""
        path == IF q > 0 THEN SubSeq(r3, 1, q - 1) ELSE r3
    IN  [scheme |-> scheme, netloc |-> netloc, path |-> path,
         query |-> query, fragment |-> fragment]

classify_url_slash_only(u) ==
    IF urlparse(u).path = "/" THEN "Website" ELSE "Web Page"

classify_url(u) ==
    IF urlparse(u).path \in {"", "/"} THEN "Website" ELSE "Web Page"

-----------------------------------------------------------------------------
(* utils.py: remove_duplicate_links, extract_links *)

\* link.get("href", "")
GetHref(link) == IF "href" \in DOMAIN link THEN link.href ELSE ""

LinkKeyWhole(link) == GetHref(link)

\* link.get("href", "").split("#")[0]
LinkKey(link) == SplitFirst(GetHref(link), "#")

\* unique_links is an insertion-ordered dict: its keys and its values, in
\* insertion order.
EmptyDict == [keys |-> <<>>, vals |-> <<>>]

DedupStepOverwrite(unique_links, link) ==
    LET href == LinkKey(link)
    IN  IF href = "" THEN unique_links
        ELSE IF href \in Range(unique_links.keys)
        THEN [unique_links EXCEPT !.vals =
                 [k \in DOMAIN unique_links.vals |->
                     IF unique_links.keys[k] = href THEN link
                     ELSE unique_links.vals[k]]]
        ELSE [keys |-> Append(unique_links.keys, href),
              vals |-> Append(unique_links.vals, link)]

\* one iteration of the loop of remove_duplicate_links
DedupStep(unique_links, link) ==
    LET href == LinkKey(link)
    IN  IF href /= "" /\ href \notin Range(unique_links.keys)
        THEN [keys |-> Append(unique_links.keys, href),
              vals |-> Append(unique_links.vals, link)]
        ELSE unique_links

\* for link in links: the steps for links[lo..hi], left to right, starting
\* from unique_links. The range is halved, and the dict after the left half
\* is computed (its keys and values counted) before the right half starts,
\* which keeps the evaluation shallow on pages with many links.
RECURSIVE DedupLoop(_, _, _, _)
DedupLoop(ls, lo, hi, unique_links) ==
    IF lo > hi THEN unique_links
    ELSE IF lo = hi THEN DedupStep(unique_links, ls[lo])
    ELSE LET mid == (lo + hi) \div 2
             left == DedupLoop(ls, lo, mid, unique_links)
         IN  IF Len(left.keys) = Len(left.vals)
             THEN DedupLoop(ls, mid + 1, hi, left)
             ELSE left

remove_duplicate_links_skip_first(ls) ==
    DedupLoop(ls, 2, Len(ls), EmptyDict).vals

remove_duplicate_links(ls) == DedupLoop(ls, 1, Len(ls), EmptyDict).vals

HasHref(link) == "href" \in DOMAIN link

\* [link["href"] for link in links if "href" in link]
extract_links(ls) ==
    LET with == SelectSeq(ls, HasHref)
    IN  [k \in 1..Len(with) |-> with[k].href]

-----------------------------------------------------------------------------
(* SpecUrl: classify_url on URLs assembled from their components *)

Schemes == {"", "http", "https", "ftp"}
Hosts == {"", "a.com", "b.org:8080"}
Paths == {"", "/", "/about", "/a/b", "/index.html"}
Queries == {"", "q=1", "next=/about"}
Fragments == {"", "top", "/"}

\* urllib.parse.urlunparse
Assemble(p) ==
    (IF p.scheme /= "" THEN p.scheme \o ":" ELSE "")
    \o (IF p.netloc /= "" THEN "//" \o p.netloc ELSE "")
    \o p.path
    \o (IF p.query /= "" THEN "?" \o p.query ELSE "")
    \o (IF p.fragment /= "" THEN "#" \o p.fragment ELSE "")

Components == [scheme : Schemes, netloc : Hosts, path : Paths,
               query : Queries, fragment : Fragments]


HIdle ==
    /\ endpoint = "" /\ url = "" /\ pc = "idle"
    /\ pw = "none" /\ browser = "none" /\ context = "none" /\ page = "none"
    /\ title = "" /\ content = "" /\ text = "" /\ links = <<>>
    /\ meta_tags = <<>> /\ raised = ""
    /\ response = [kind |-> "none"]

LIdle ==
    /\ L = <<>> /\ deduped = <<>> /\ again = <<>> /\ hrefs = <<>>
    /\ lpc = "input"

UIdle ==
    /\ parts = [scheme |-> "", netloc |-> "", path |-> "", query |-> "",
                fragment |-> ""]
    /\ target = "" /\ class = "" /\ upc = "input"

InitUrl ==
    /\ HIdle /\ LIdle
    /\ parts \in Components
    /\ target = Assemble(parts)
    /\ class = "" /\ upc = "input"

Classify ==
    /\ upc = "input"
    /\ class' = classify_url(target)
    /\ upc' = "classified"
    /\ UNCHANGED <<parts, target, hvars, lvars>>

NextUrl == Classify

SpecUrl == InitUrl /\ [][NextUrl]_vars

-----------------------------------------------------------------------------
(* SpecLinks: the link normalizer on bounded link lists *)

LinkHrefs == {"/x", "/x#a", "/x#b", "/y", "#f", ""}
LinkTexts == {"first", "second"}

\* a Link as the page yields it, and a dict without the href key
LinkSet == [href : LinkHrefs, text : LinkTexts] \cup [text : LinkTexts]

LinkLists == UNION {[1..n -> LinkSet] : n \in 0..MaxLen}

InitLinks ==
    /\ HIdle /\ UIdle
    /\ L \in LinkLists
    /\ deduped = <<>> /\ again = <<>> /\ hrefs = <<>>
    /\ lpc = "input"

Dedup ==
    /\ lpc = "input"
    /\ deduped' = remove_duplicate_links(L)
    /\ lpc' = "deduped"
    /\ UNCHANGED <<L, again, hrefs, hvars, uvars>>

DedupAgain ==
    /\ lpc = "deduped"
    /\ again' = remove_duplicate_links(deduped)
    /\ lpc' = "twice"
    /\ UNCHANGED <<L, deduped, hrefs, hvars, uvars>>

Extract ==
    /\ lpc = "twice"
    /\ hrefs' = extract_links(deduped)
    /\ lpc' = "extracted"
    /\ UNCHANGED <<L, deduped, again, hvars, uvars>>

NextLinks == Dedup \/ DedupAgain \/ Extract

SpecLinks == InitLinks /\ [][NextLinks]_vars

-----------------------------------------------------------------------------
(* app.py: the request handlers *)

CrawlEndpoints == {"crawl", "crawl_json", "direct_function"}
Endpoints == CrawlEndpoints \cup {"fetch_link"}

Urls == {"https://a.com", "https://a.com/", "http://a.com/?q=1",
         "https://a.com/page", "http://a.com/a/b#f", "ftp://a.com/",
         "httpx://a.com", "not-a-url", "a.com", "/", ""}

\* What the page yields: s repeated n times
RECURSIVE Rep(_, _)
Rep(s, n) ==
    IF n = 0 THEN ""
    ELSE LET half == Rep(s, n \div 2)
         IN  IF n % 2 = 0 THEN half \o half ELSE half \o half \o s

PageString(n) == SubSeq(Rep("abc", n \div 3 + 1), 1, n)

TextLens == {0, 5, TextCap - 1, TextCap, TextCap + 1, TextCap + ExtraText}
HtmlLens == {64, TextCap + ExtraText + 1}
Titles == {"", "Example Domain"}

\* n anchors in document order: every 7th has no target, even ones carry a
\* fragment, and targets repeat with period m
PageLinks(n, m) ==
    [i \in 1..n |->
        [href |-> IF i % 7 = 0 THEN ""
                  ELSE "https://a.com/p" \o ToString(i % m)
                       \o (IF i % 2 = 0 THEN "#s" \o ToString(i) ELSE ""),
         text |-> "t" \o ToString(i)]]

LinkCounts == {0, 3, LinkCap, LinkCap + 1, LinkCap + ExtraLinks}
LinkPeriods == {3, 1000}
Metas == {<<>>,
          <<[name |-> "description", property |-> "null", content |-> "d"],
            [name |-> "null", property |-> "og:title", content |-> "t"]>>}

\* request.url.startswith(('http://', 'https://'))
ValidSchemeLoose(u) == StartsWith(u, "http")

ValidScheme(u) == StartsWith(u, "http://") \/ StartsWith(u, "https://")

\* fetch_link: classify_url(request.url) != "Website"
ShortCircuitsNever(u) == FALSE

ShortCircuits(u) == classify_url(u) /= "Website"

\* text[:10000] if len(text) > 10000 else text
CapTextOffByOne(t) ==
    IF Len(t) > TextCap THEN SubSeq(t, 1, TextCap + 1) ELSE t

CapText(t) == IF Len(t) > TextCap THEN SubSeq(t, 1, TextCap) ELSE t

\* links[:100] if len(links) > 100 else links
CapLinks(ls) == IF Len(ls) > LinkCap THEN SubSeq(ls, 1, LinkCap) ELSE ls

\* the result dict (crawl_time, a wall-clock reading, is left out)
Result(u, ti, co, te, ls, me) ==
    [url |-> u, title |-> ti, text |-> CapText(te), links |-> CapLinks(ls),
     meta_tags |-> me, html_length |-> Len(co)]

FetchLinkResultCapped(ls) ==
    extract_links(remove_duplicate_links(CapLinks(ls)))

\* fetch_link: clean_data = extract_links(remove_duplicate_links(links))
FetchLinkResult(ls) == extract_links(remove_duplicate_links(ls))

\* {"error": f"Error during crawling: {str(e)}", "url": request.url}
ErrorBody(e, u) == [error |-> "Error during crawling: " \o e, url |-> u]

Http400(detail) == [kind |-> "http400", detail |-> detail]

Init == HIdle /\ LIdle /\ UIdle

\* crawl_json / direct_function: `if not url`; crawl: the scheme check.
CrawlReject ==
    \E e \in CrawlEndpoints, u \in Urls :
        /\ pc = "idle"
        /\ (e /= "crawl" /\ u = "") \/ ~ValidScheme(u)
        /\ endpoint' = e /\ url' = u
        /\ response' = IF e /= "crawl" /\ u = ""
                       THEN Http400("URL is required")
                       ELSE Http400("URL must start with http:// or https://")
        /\ pc' = "done"
        /\ UNCHANGED <<pw, browser, context, page, title, content, text,
                       links, meta_tags, raised, lvars, uvars>>

CrawlAccept ==
    \E e \in CrawlEndpoints, u \in Urls :
        /\ pc = "idle"
        /\ ~(e /= "crawl" /\ u = "") /\ ValidScheme(u)
        /\ endpoint' = e /\ url' = u
        /\ pc' = "enter"
        /\ UNCHANGED <<pw, browser, context, page, title, content, text,
                       links, meta_tags, response, raised, lvars, uvars>>

FetchLinkPassthrough ==
    \E u \in Urls :
        /\ pc = "idle"
        /\ ShortCircuits(u)
        /\ endpoint' = "fetch_link" /\ url' = u
        /\ response' = [kind |-> "passthrough", body |-> u]
        /\ pc' = "done"
        /\ UNCHANGED <<pw, browser, context, page, title, content, text,
                       links, meta_tags, raised, lvars, uvars>>

FetchLinkReject ==
    \E u \in Urls :
        /\ pc = "idle"
        /\ ~ShortCircuits(u) /\ ~ValidScheme(u)
        /\ endpoint' = "fetch_link" /\ url' = u
        /\ response' = Http400("URL must start with http:// or https://")
        /\ pc' = "done"
        /\ UNCHANGED <<pw, browser, context, page, title, content, text,
                       links, meta_tags, raised, lvars, uvars>>

FetchLinkAccept ==
    \E u \in Urls :
        /\ pc = "idle"
        /\ ~ShortCircuits(u) /\ ValidScheme(u)
        /\ endpoint' = "fetch_link" /\ url' = u
        /\ pc' = "enter"
        /\ UNCHANGED <<pw, browser, context, page, title, content, text,
                       links, meta_tags, response, raised, lvars, uvars>>

\* async with async_playwright() as p
StartPlaywright ==
    /\ pc = "enter"
    /\ pw' = "started"
    /\ pc' = "launch"
    /\ UNCHANGED <<endpoint, url, browser, context, page, title, content,
                   text, links, meta_tags, response, raised, lvars, uvars>>

\* browser = await p.chromium.launch(...)
Launch ==
    /\ pc = "launch"
    /\ browser' = "launched"
    /\ pc' = "new_context"
    /\ UNCHANGED <<endpoint, url, pw, context, page, title, content, text,
                   links, meta_tags, response, raised, lvars, uvars>>

\* context = await browser.new_context()
NewContext ==
    /\ pc = "new_context"
    /\ context' = "open"
    /\ pc' = "new_page"
    /\ UNCHANGED <<endpoint, url, pw, browser, page, title, content, text,
                   links, meta_tags, response, raised, lvars, uvars>>

\* page = await context.new_page()
NewPage ==
    /\ pc = "new_page"
    /\ page' = "blank"
    /\ pc' = "goto"
    /\ UNCHANGED <<endpoint, url, pw, browser, context, title, content, text,
                   links, meta_tags, response, raised, lvars, uvars>>

\* await page.goto(request.url, wait_until="load", timeout=120000)
Goto ==
    /\ pc = "goto"
    /\ page' = "loaded"
    /\ pc' = "title"
    /\ UNCHANGED <<endpoint, url, pw, browser, context, title, content, text,
                   links, meta_tags, response, raised, lvars, uvars>>

ReadTitle ==
    /\ pc = "title"
    /\ title' \in Titles
    /\ pc' = "content"
    /\ UNCHANGED <<endpoint, url, pw, browser, context, page, content, text,
                   links, meta_tags, response, raised, lvars, uvars>>

ReadContent ==
    /\ pc = "content"
    /\ \E n \in HtmlLens : content' = PageString(n)
    /\ pc' = "text"
    /\ UNCHANGED <<endpoint, url, pw, browser, context, page, title, text,
                   links, meta_tags, response, raised, lvars, uvars>>

ReadText ==
    /\ pc = "text"
    /\ \E n \in TextLens : text' = PageString(n)
    /\ pc' = "links"
    /\ UNCHANGED <<endpoint, url, pw, browser, context, page, title, content,
                   links, meta_tags, response, raised, lvars, uvars>>

ReadLinks ==
    /\ pc = "links"
    /\ \E n \in LinkCounts, m \in LinkPeriods : links' = PageLinks(n, m)
    /\ pc' = "meta"
    /\ UNCHANGED <<endpoint, url, pw, browser, context, page, title, content,
                   text, meta_tags, response, raised, lvars, uvars>>

ReadMeta ==
    /\ pc = "meta"
    /\ meta_tags' \in Metas
    /\ pc' = "close"
    /\ UNCHANGED <<endpoint, url, pw, browser, context, page, title, content,
                   text, links, response, raised, lvars, uvars>>

\* await browser.close(): Playwright closes the browser's contexts with it
CloseBrowser ==
    /\ pc = "close"
    /\ browser' = "closed"
    /\ context' = "closed"
    /\ pc' = "result"
    /\ UNCHANGED <<endpoint, url, pw, page, title, content, text, links,
                   meta_tags, response, raised, lvars, uvars>>

\* crawl: build result, return it; the async with block is left
CrawlRespond ==
    /\ pc = "result" /\ endpoint \in CrawlEndpoints
    /\ response' = [kind |-> "bundle",
                    body |-> Result(url, title, content, text, links,
                                    meta_tags)]
    /\ pw' = "stopped"
    /\ pc' = "done"
    /\ UNCHANGED <<endpoint, url, browser, context, page, title, content,
                   text, links, meta_tags, raised, lvars, uvars>>

\* fetch_link: the result dict is built and dropped; clean_data is returned
FetchLinkRespond ==
    /\ pc = "result" /\ endpoint = "fetch_link"
    /\ response' = [kind |-> "links", body |-> FetchLinkResult(links)]
    /\ pw' = "stopped"
    /\ pc' = "done"
    /\ UNCHANGED <<endpoint, url, browser, context, page, title, content,
                   text, links, meta_tags, raised, lvars, uvars>>

AwaitSteps == {"enter", "launch", "new_context", "new_page", "goto", "title",
               "content", "text", "links", "meta", "close"}

Causes(step) ==
    IF step = "enter" THEN {"Connection closed while reading from the driver"}
    ELSE IF step = "launch" THEN {"Executable doesn't exist"}
    ELSE IF step = "goto"
    THEN {"Timeout 120000ms exceeded.", "net::ERR_NAME_NOT_RESOLVED"}
    ELSE {"Target page, context or browser has been closed"}

\* an awaited call raises; the exception leaves the async with block, whose
\* exit stops the Playwright driver, and no close() call is made on the way
Raise ==
    /\ pc \in AwaitSteps
    /\ raised' \in Causes(pc)
    /\ pw' = IF pw = "started" THEN "stopped" ELSE pw
    /\ pc' = "except"
    /\ UNCHANGED <<endpoint, url, browser, context, page, title, content,
                   text, links, meta_tags, response, lvars, uvars>>

ExceptReraises ==
    /\ pc = "except"
    /\ response' = [kind |-> "http500",
                    body |-> [error |-> "Internal server error: " \o raised]]
    /\ pc' = "done"
    /\ UNCHANGED <<endpoint, url, pw, browser, context, page, title, content,
                   text, links, meta_tags, raised, lvars, uvars>>

\* except Exception as e: return {"error": ..., "url": request.url}
Except ==
    /\ pc = "except"
    /\ response' = [kind |-> "error", body |-> ErrorBody(raised, url)]
    /\ pc' = "done"
    /\ UNCHANGED <<endpoint, url, pw, browser, context, page, title, content,
                   text, links, meta_tags, raised, lvars, uvars>>

Next ==
    \/ CrawlReject \/ CrawlAccept
    \/ FetchLinkPassthrough \/ FetchLinkReject \/ FetchLinkAccept
    \/ StartPlaywright \/ Launch \/ NewContext \/ NewPage \/ Goto
    \/ ReadTitle \/ ReadContent \/ ReadText \/ ReadLinks \/ ReadMeta
    \/ CloseBrowser \/ CrawlRespond \/ FetchLinkRespond
    \/ Raise \/ Except

Spec == Init /\ [][Next]_vars

-----------------------------------------------------------------------------
(* Properties *)

Responded == response.kind \in {"bundle", "links", "error"}

\* C1: once a browser has been launched for a request, the request does not
\* reach its response (success body or {error, url} body) unless the browser
\* and the browsing context, if one was created, have been closed.
C1_ClosedBeforeResponse ==
    (Responded /\ browser /= "none") =>
        (browser = "closed" /\ context /= "open")

\* C2: when a call of the try block raises, for a request that passed the
\* scheme check, the handler ends with the body {error, url}, its url the
\* requested URL and its error naming the cause; nothing is propagated.
C2_ExceptionBecomesErrorBody ==
    (pc = "done" /\ raised /= "") =>
        /\ StartsWith(url, "http://") \/ StartsWith(url, "https://")
        /\ response.kind = "error"
        /\ response.body.url = url
        /\ response.body.error = "Error during crawling: " \o raised

C2_Witness ==
    /\ pc = "done" /\ endpoint = "fetch_link" /\ url = "https://a.com/"
    /\ page = "blank" /\ raised = "Timeout 120000ms exceeded."
    /\ response.kind = "error"

\* C3: a crawl request whose URL starts with neither http:// nor https://
\* ends in HTTP 400, never in a body, and no Playwright driver, browser,
\* context or page exists at any point of it.
C3_BadSchemeIs400 ==
    (endpoint \in CrawlEndpoints
        /\ ~(StartsWith(url, "http://") \/ StartsWith(url, "https://"))) =>
        /\ pw = "none" /\ browser = "none" /\ context = "none"
        /\ page = "none"
        /\ pc = "done"
        /\ response.kind = "http400"

C3_Witness ==
    /\ endpoint = "crawl" /\ url = "not-a-url"
    /\ response = Http400("URL must start with http:// or https://")

\* C4: a fetch_link request whose URL classify_url does not class as a site
\* root is answered with the URL string itself; no scheme check fails and no
\* driver, browser, context or page exists at any point of it.
C4_InnerPageEchoed ==
    (endpoint = "fetch_link" /\ classify_url(url) /= "Website") =>
        /\ pw = "none" /\ browser = "none" /\ context = "none"
        /\ page = "none"
        /\ pc = "done"
        /\ response = [kind |-> "passthrough", body |-> url]

C4_Witness ==
    /\ endpoint = "fetch_link" /\ url = "not-a-url"
    /\ urlparse(url).path = "not-a-url"
    /\ response.kind = "passthrough" /\ response.body = "not-a-url"

\* C5: a successful crawl result has at most 10000 characters of text, the
\* prefix of the body text (all of it when it is that short), at most 100
\* links, the first ones in document order, and html_length is the length of
\* the whole HTML.
C5_CapsApplied ==
    response.kind = "bundle" =>
        LET b == response.body
            nt == IF Len(text) < TextCap THEN Len(text) ELSE TextCap
            nl == IF Len(links) < LinkCap THEN Len(links) ELSE LinkCap
        IN  /\ Len(b.text) <= TextCap
            /\ Len(b.links) <= LinkCap
            /\ b.text = SubSeq(text, 1, nt)
            /\ b.links = SubSeq(links, 1, nl)
            /\ b.html_length = Len(content)

C5_Witness ==
    /\ response.kind = "bundle"
    /\ Len(text) > TextCap /\ Len(links) > LinkCap /\ Len(content) > TextCap
    /\ Len(response.body.text) = TextCap
    /\ Len(response.body.links) = LinkCap

\* The part of an href before its first '#'
PrefixBeforeHash(h) ==
    LET hs == {i \in 1..Len(h) : SubSeq(h, i, i) = "#"}
    IN  IF hs = {} THEN h ELSE SubSeq(h, 1, Min(hs) - 1)

Prefix(link) ==
    PrefixBeforeHash(IF "href" \in DOMAIN link THEN link.href ELSE "")

\* The positions of ls holding the first entry of a non-empty prefix
FirstIdx(ls) ==
    {i \in 1..Len(ls) :
        /\ Prefix(ls[i]) /= ""
        /\ \A j \in 1..(i - 1) : Prefix(ls[j]) /= Prefix(ls[i])}

\* The entries of ls at those positions, in the order of ls
KeptSeq(ls) ==
    LET idx == FirstIdx(ls)
        nth(k) == CHOOSE i \in idx : Cardinality({j \in idx : j < i}) = k - 1
    IN  [k \in 1..Cardinality(idx) |-> ls[nth(k)]]

\* i is the first position of ls with its (non-empty) href prefix
FirstOfPrefix(ls, i) ==
    /\ Prefix(ls[i]) /= ""
    /\ \A j \in 1..(i - 1) : Prefix(ls[j]) /= Prefix(ls[i])

\* C6: a successful fetch_link returns the hrefs of the deduplicated complete
\* link list of the page, no cap applied: a link beyond position 100 that is
\* the first of its target is in the result.
C6_LinksUncapped ==
    response.kind = "links" =>
        /\ response.body = extract_links(remove_duplicate_links(links))
        /\ \A i \in (LinkCap + 1)..Len(links) :
              FirstOfPrefix(links, i) => links[i].href \in Range(response.body)

C6_Witness ==
    /\ response.kind = "links"
    /\ Len(links) > LinkCap
    /\ \E i \in (LinkCap + 1)..Len(links) :
          /\ FirstOfPrefix(links, i)
          /\ links[i].href = response.body[Len(response.body)]

Scenario ==
    /\ lpc /= "input"
    /\ Len(L) = 2
    /\ GetHref(L[1]) = "/x#a"
    /\ GetHref(L[2]) = "/x#b"

\* C7 as claimed: the two anchors /x#a, /x#b collapse to one Link whose href
\* is /x and whose text is the first anchor's.
C7_Original ==
    Scenario =>
        /\ Len(deduped) = 1
        /\ deduped[1].href = "/x"
        /\ deduped[1].text = L[1].text

\* C7 as amended: the two anchors /x#a, /x#b collapse to one Link, the first
\* anchor as it was: href /x#a with its fragment, and its text.
C7_FirstAnchorKept ==
    Scenario =>
        /\ Len(deduped) = 1
        /\ deduped[1] = L[1]
        /\ deduped[1].href = "/x#a"

C7_Witness ==
    /\ Scenario
    /\ L[1].text = "first" /\ L[2].text = "second"
    /\ Len(deduped) = 1

\* C8: the output is no longer than the input, its href prefixes are
\* non-empty and pairwise different, and it is the first entry of each
\* non-empty prefix in the order of the input (entries without href, with an
\* empty href or with only a fragment are gone).
C8_UniquePrefixes ==
    lpc /= "input" =>
        /\ Len(deduped) <= Len(L)
        /\ \A i \in 1..Len(deduped) : Prefix(deduped[i]) /= ""
        /\ \A i, j \in 1..Len(deduped) :
              i /= j => Prefix(deduped[i]) /= Prefix(deduped[j])
        /\ deduped = KeptSeq(L)

C8_Witness ==
    /\ lpc = "deduped"
    /\ Len(L) = 3
    /\ "href" \notin DOMAIN L[1]
    /\ GetHref(L[2]) = "#f"
    /\ GetHref(L[3]) = "/y"
    /\ deduped = <<L[3]>>

\* C9: remove_duplicate_links applied to its own output returns it unchanged.
C9_Idempotent ==
    lpc \in {"twice", "extracted"} => again = deduped

C9_Witness ==
    /\ lpc = "twice"
    /\ Len(deduped) = 2
    /\ deduped[1].href = "/x#b"
    /\ again = deduped

\* C10: classify_url answers Website exactly when the path the URL was
\* assembled with is empty or "/", whatever its scheme, host, query and
\* fragment, and Web Page otherwise.
C10_PathDecides ==
    upc = "classified" =>
        /\ class \in {"Website", "Web Page"}
        /\ class = "Website" <=> parts.path \in {"", "/"}

C10_Witness ==
    /\ upc = "classified"
    /\ parts.scheme = "ftp" /\ parts.netloc = "b.org:8080"
    /\ parts.path = "" /\ parts.query = "next=/about"
    /\ parts.fragment = "/"
    /\ class = "Website"

====
